---- MODULE Spec2Model ----
(***************************************************************************)
(* Model of examples/strands-agent/agent.py: a module-level MermkitClient  *)
(* that is started at import, closed by an atexit handler, and used by the *)
(* registered tool render_mermaid.                                         *)
(*                                                                         *)
(* The MermkitClient class itself (start/close/render) is not part of the  *)
(* example script; its behaviour is modelled from the specification's      *)
(* description of the rendering backend client (sections 3, 4.1, 6, 7).    *)
(***************************************************************************)
EXTENDS Naturals, Sequences, FiniteSets

VARIABLES
    pc,             \* phase of the process: module, main, exiting, exited
    ip,             \* index of the next module-level statement to execute
    client,         \* module-level _client handle
    connected,      \* connection state of the external client
    atexitHandlers, \* handlers registered with atexit, in registration order
    startCalls,     \* number of _client.start() calls made
    startOk,        \* a _client.start() call has returned without raising
    closeCalls,     \* number of _client.close() calls made
    toolCalls,      \* number of render_mermaid invocations made
    renderCalls,    \* number of _client.render() calls made
    lastArgs,       \* arguments of the last render_mermaid invocation
    connAtCall,     \* connection state when the last invocation was made
    lastRequest,    \* last request forwarded to _client.render
    lastResponse,   \* what _client.render did for the last invocation
    lastOutcome,    \* what the last render_mermaid invocation did
    exitStatus      \* how the process left the script: running, normal, error

vars == <<pc, ip, client, connected, atexitHandlers, startCalls, startOk,
          closeCalls, toolCalls, renderCalls, lastArgs, connAtCall, lastRequest,
          lastResponse, lastOutcome, exitStatus>>

----------------------------------------------------------------------------
(* Bounds and input sets *)

\* Number of tool invocations the agent makes in one process.
MaxCalls == 2

\* Marker for a call that passes no format argument.
NoFormat == "<omitted>"

Diagrams == {"", "graph TD; A-->B", "graph TD; A-->"}

FormatArgs == {"svg", "png", "pdf", NoFormat}

None == [kind |-> "none"]

----------------------------------------------------------------------------
(* The external client, from the specification *)

SupportedFormats == {"svg", "png"}

MimeOf(format) == IF format = "svg" THEN "image/svg+xml" ELSE "image/png"

\* Raw payloads a backend may produce for a format (leading bytes only).
Payloads(format) ==
    IF format = "svg" THEN {<<60, 115, 118, 103>>, <<60, 63, 120>>}
                      ELSE {<<137, 80, 78, 71>>}

WarningLists == {<<>>, <<"unsupported directive ignored">>}

Raise(e) == [kind |-> "raise", error |-> e]

\* start(): establishes the connection, or fails.
ClientStartOutcomes == {[kind |-> "ok"], Raise("BackendUnavailable")}

\* Errors render() may fail with before any rendering is attempted.  The
\* specification names both conditions and fixes no order between them.
ClientRenderRejections(conn, source, format) ==
    (IF conn THEN {} ELSE {"BackendUnavailable"})
    \cup (IF source = "" \/ format \notin SupportedFormats
          THEN {"InvalidArgument"} ELSE {})

\* render(source, format, engine): every outcome the client may produce.
ClientRenderOutcomes(conn, source, format, engine) ==
    IF ClientRenderRejections(conn, source, format) # {}
    THEN {Raise(e) : e \in ClientRenderRejections(conn, source, format)}
    ELSE {Raise("RenderError")}
         \cup {[kind |-> "ok",
                result |-> [mime |-> MimeOf(format), bytes |-> b, warnings |-> w]]
               : b \in Payloads(format), w \in WarningLists}

----------------------------------------------------------------------------
(* render_mermaid *)

\* engine="stub"
Engine == "stub"

\* format: str = "svg"
EffectiveFormat(format) == IF format = NoFormat THEN "svg" ELSE format

\* Variant: the format argument is dropped and svg is always requested.
ForwardedRequest_svgOnly(diagram, format) ==
    [source |-> diagram, format |-> "svg", engine |-> Engine]

\* Variant: the engine is picked from the caller's format.
ForwardedRequest_engineFromFormat(diagram, format) ==
    [source |-> diagram, format |-> EffectiveFormat(format),
     engine |-> IF EffectiveFormat(format) = "png" THEN "puppeteer" ELSE Engine]

ForwardedRequest(diagram, format) ==
    [source |-> diagram, format |-> EffectiveFormat(format), engine |-> Engine]

\* Variant: the backend call is issued a second time.
RenderCalls_twice(diagram, format) ==
    <<ForwardedRequest(diagram, format), ForwardedRequest(diagram, format)>>

\* The _client.render calls one invocation makes, in order.
RenderCalls(diagram, format) == <<ForwardedRequest(diagram, format)>>

Returned(mime, bytes, warnings) ==
    [kind |-> "return",
     value |-> [mime |-> mime, bytes |-> bytes, warnings |-> warnings]]

\* Variant: the warnings of the response are not copied.
render_mermaid_dropWarnings(diagram, format, resp) ==
    IF resp.kind = "raise"
    THEN Raise(resp.error)
    ELSE Returned(resp.result.mime, resp.result.bytes, <<>>)

\* Variant: the mime is derived from the requested format.
render_mermaid_mimeFromFormat(diagram, format, resp) ==
    IF resp.kind = "raise"
    THEN Raise(resp.error)
    ELSE Returned(EffectiveFormat(format), resp.result.bytes,
                  resp.result.warnings)

\* Variant: a backend failure is caught and reported as a warning.
render_mermaid_catch(diagram, format, resp) ==
    IF resp.kind = "raise"
    THEN Returned("text/plain", <<>>, <<resp.error>>)
    ELSE Returned(resp.result.mime, resp.result.bytes, resp.result.warnings)

\* Variant: an empty diagram short-circuits to an empty document.
render_mermaid_emptyOk(diagram, format, resp) ==
    IF diagram = ""
    THEN Returned("image/svg+xml", <<>>, <<>>)
    ELSE IF resp.kind = "raise"
    THEN Raise(resp.error)
    ELSE Returned(resp.result.mime, resp.result.bytes, resp.result.warnings)

\* Variant: every backend failure is re-raised as RenderError.
render_mermaid_wrapErrors(diagram, format, resp) ==
    IF resp.kind = "raise"
    THEN Raise("RenderError")
    ELSE Returned(resp.result.mime, resp.result.bytes, resp.result.warnings)

\* The outcome of one invocation, given what _client.render did.
render_mermaid(diagram, format, resp) ==
    IF resp.kind = "raise"
    THEN Raise(resp.error)
    ELSE [kind |-> "return",
          value |-> [mime |-> resp.result.mime,
                     bytes |-> resp.result.bytes,
                     warnings |-> resp.result.warnings]]

----------------------------------------------------------------------------
(* The script *)

\* Variant: the exit handler is registered before the client is started.
ModuleBody_registerFirst == <<"construct", "register", "start">>

\* The module-level statements executed at import, in source order.
ModuleBody == <<"construct", "start", "register">>

Init ==
    /\ pc = "module"
    /\ ip = 1
    /\ client = "unset"
    /\ connected = FALSE
    /\ atexitHandlers = <<>>
    /\ startCalls = 0
    /\ startOk = FALSE
    /\ closeCalls = 0
    /\ toolCalls = 0
    /\ renderCalls = 0
    /\ lastArgs = None
    /\ connAtCall = FALSE
    /\ lastRequest = None
    /\ lastResponse = None
    /\ lastOutcome = None
    /\ exitStatus = "running"

callVars == <<toolCalls, renderCalls, lastArgs, connAtCall, lastRequest,
              lastResponse, lastOutcome>>

\* The module-level statement about to execute.
AtStatement(stmt) == pc = "module" /\ ModuleBody[ip] = stmt

\* Fall through to the next module-level statement, or into __main__.
Advance ==
    /\ ip' = ip + 1
    /\ pc' = IF ip = Len(ModuleBody) THEN "main" ELSE "module"

\* An exception nobody catches: the interpreter starts shutting down.
Unhandled ==
    /\ pc' = "exiting"
    /\ ip' = ip
    /\ exitStatus' = "error"

\* _client = MermkitClient()
ConstructClient ==
    /\ AtStatement("construct")
    /\ client' = "MermkitClient"
    /\ Advance
    /\ UNCHANGED <<connected, atexitHandlers, startCalls, startOk, closeCalls,
                   exitStatus>>
    /\ UNCHANGED callVars

\* _client.start()
StartClient ==
    /\ AtStatement("start")
    /\ startCalls' = startCalls + 1
    /\ \E out \in ClientStartOutcomes :
         IF out.kind = "ok"
         THEN /\ connected' = TRUE
              /\ startOk' = TRUE
              /\ Advance
              /\ exitStatus' = exitStatus
         ELSE /\ connected' = connected
              /\ startOk' = startOk
              /\ Unhandled
    /\ UNCHANGED <<client, atexitHandlers, closeCalls>>
    /\ UNCHANGED callVars

\* atexit.register(_client.close)
RegisterClose ==
    /\ AtStatement("register")
    /\ atexitHandlers' = Append(atexitHandlers, "close")
    /\ Advance
    /\ UNCHANGED <<client, connected, startCalls, startOk, closeCalls,
                   exitStatus>>
    /\ UNCHANGED callVars

\* agent.tool.render_mermaid(...): one invocation of the tool.
InvokeTool ==
    /\ pc = "main"
    /\ toolCalls < MaxCalls
    /\ \E d \in Diagrams, f \in FormatArgs :
         LET calls == RenderCalls(d, f)
             req == calls[Len(calls)] IN
         \E resp \in ClientRenderOutcomes(connected, req.source, req.format,
                                          req.engine) :
            /\ lastArgs' = [diagram |-> d, format |-> f]
            /\ connAtCall' = connected
            /\ lastRequest' = req
            /\ lastResponse' = resp
            /\ lastOutcome' = render_mermaid(d, f, resp)
            /\ renderCalls' = renderCalls + Len(calls)
            /\ toolCalls' = toolCalls + 1
            /\ IF render_mermaid(d, f, resp).kind = "raise"
               THEN Unhandled
               ELSE UNCHANGED <<pc, ip, exitStatus>>
    /\ UNCHANGED <<client, connected, atexitHandlers, startCalls, startOk,
                   closeCalls>>

\* End of the __main__ block.
MainDone ==
    /\ pc = "main"
    /\ pc' = "exiting"
    /\ exitStatus' = "normal"
    /\ UNCHANGED <<ip, client, connected, atexitHandlers, startCalls, startOk,
                   closeCalls>>
    /\ UNCHANGED callVars

\* The connection drops while the script is running.
ConnectionLost ==
    /\ pc = "main"
    /\ connected
    /\ connected' = FALSE
    /\ UNCHANGED <<pc, ip, client, atexitHandlers, startCalls, startOk,
                   closeCalls, exitStatus>>
    /\ UNCHANGED callVars

\* close(): releases the connection; closing twice is harmless.
ClientClose ==
    /\ closeCalls' = closeCalls + 1
    /\ connected' = FALSE

\* Interpreter exit: the registered handlers run, last registered first.
RunExitHandler ==
    /\ pc = "exiting"
    /\ atexitHandlers # <<>>
    /\ atexitHandlers' = SubSeq(atexitHandlers, 1, Len(atexitHandlers) - 1)
    /\ ClientClose
    /\ UNCHANGED <<pc, ip, client, startCalls, startOk, exitStatus>>
    /\ UNCHANGED callVars

ProcessEnd ==
    /\ pc = "exiting"
    /\ atexitHandlers = <<>>
    /\ pc' = "exited"
    /\ UNCHANGED <<ip, client, connected, atexitHandlers, startCalls, startOk,
                   closeCalls, exitStatus>>
    /\ UNCHANGED callVars

Next ==
    \/ ConstructClient
    \/ StartClient
    \/ RegisterClose
    \/ InvokeTool
    \/ MainDone
    \/ ConnectionLost
    \/ RunExitHandler
    \/ ProcessEnd

Spec == Init /\ [][Next]_vars

----------------------------------------------------------------------------
(* Properties *)

Called == toolCalls > 0

Succeeded == Called /\ lastOutcome.kind = "return"

\* The caller's format, with the declared default filled in.
RequestedFormat == IF lastArgs.format = NoFormat THEN "svg" ELSE lastArgs.format

ArgsWellFormed ==
    lastArgs.diagram # "" /\ RequestedFormat \in {"svg", "png"}

\* C1: whenever the backend's render call succeeds with a response r, the
\* invocation returns a record with exactly the fields mime, bytes and
\* warnings, each equal to the field of r of the same name.
C1_ResultCopiesResponse ==
    (Called /\ lastResponse.kind = "ok") =>
        /\ lastOutcome.kind = "return"
        /\ DOMAIN lastOutcome.value = {"mime", "bytes", "warnings"}
        /\ lastOutcome.value.mime = lastResponse.result.mime
        /\ lastOutcome.value.bytes = lastResponse.result.bytes
        /\ lastOutcome.value.warnings = lastResponse.result.warnings

C1_Witness ==
    /\ Succeeded
    /\ lastResponse.kind = "ok"
    /\ lastResponse.result.warnings # <<>>
    /\ lastOutcome.value.warnings = lastResponse.result.warnings

\* C2: once the process has ended, if start() was called then close() has
\* been called, whether the process ended normally or on an error.
C2_ReleasedOnEveryExit ==
    (pc = "exited" /\ startCalls > 0) => closeCalls > 0

C6_BackendErrorPropagates ==
    /\ renderCalls <= toolCalls
    /\ (Called /\ lastResponse.kind = "raise") =>
          /\ lastOutcome.kind = "raise"
          /\ lastOutcome.error = lastResponse.error

C6_Witness ==
    /\ Called
    /\ connAtCall
    /\ lastResponse = Raise("RenderError")
    /\ lastOutcome = Raise("RenderError")
    /\ renderCalls = toolCalls

\* C7: every invocation makes exactly one backend render call and leaves
\* the client handle and its connection state as they were.
C7_OneCallNoLocalChange ==
    [][toolCalls' # toolCalls =>
          /\ toolCalls' = toolCalls + 1
          /\ renderCalls' = renderCalls + 1
          /\ client' = client
          /\ connected' = connected
          /\ atexitHandlers' = atexitHandlers]_vars

C7_Witness ==
    /\ toolCalls = 2
    /\ renderCalls = 2
    /\ lastOutcome.kind = "raise"
    /\ client = "MermkitClient"

\* C8: the request forwarded to the backend carries the caller's diagram,
\* the caller's format (svg when none is given) and the engine "stub".
C8_RequestForwarded ==
    Called =>
        /\ lastRequest.source = lastArgs.diagram
        /\ lastRequest.format = RequestedFormat
        /\ lastRequest.engine = "stub"

C8_Witness ==
    /\ Called
    /\ lastArgs = [diagram |-> "graph TD; A-->", format |-> NoFormat]
    /\ lastRequest = [source |-> "graph TD; A-->", format |-> "svg",
                      engine |-> "stub"]

C10_LifecycleOrder ==
    /\ [](/\ startCalls <= 1
          /\ pc = "main" => startCalls = 1
          /\ renderCalls > 0 => (startCalls = 1 /\ startOk)
          /\ atexitHandlers # <<>> => startOk
          /\ closeCalls > 0 => startOk)
    /\ [][closeCalls > 0 => toolCalls' = toolCalls]_vars
    /\ [][toolCalls' # toolCalls => closeCalls = 0]_vars

C10_Witness ==
    /\ pc = "exited"
    /\ exitStatus = "normal"
    /\ startCalls = 1
    /\ toolCalls > 0
    /\ closeCalls = 1

====
